---- MODULE Spec2Model ----
(***************************************************************************)
(* A model of the shop backend (Django + Django REST framework):          *)
(*   shop/models.py       UserLoginLog, Product, Sale                      *)
(*   shop/serializers.py  UserSerializer, ProductSerializer, SaleSerializer*)
(*   shop/views.py        the request handlers                             *)
(*   shop/urls.py, myproject/urls.py   the routing table                   *)
(*                                                                         *)
(* The state is the database (one table per variable, a function from the *)
(* primary keys in use to rows), the auto-increment counter of each table,*)
(* the server clock, the client's session, and the last request with its  *)
(* response and the ordered side effects of its handler.  Each handler is *)
(* one action.                                                            *)
(***************************************************************************)
EXTENDS Integers, Sequences, FiniteSets, TLC

VARIABLES
    users,          \* auth_user: id -> [username, password (encoded)]
    nextUserId,     \* auth_user's AutoField counter
    products,       \* shop_product: id -> [name, price, user]
    nextProductId,  \* shop_product's AutoField counter
    sales,          \* shop_sale: id -> [product, user, sale_date]
    nextSaleId,     \* shop_sale's AutoField counter
    loginLog,       \* shop_userloginlog: id -> [user, username, success, timestamp]
    nextLogId,      \* shop_userloginlog's AutoField counter
    session,        \* the user id stored in the client's session, NoUser if none
    now,            \* the server clock (timezone.now())
    request,        \* the last request: [op, pk, data]
    response,       \* its response: [status, body]
    effects         \* the side effects its handler performed, in order

vars == <<users, nextUserId, products, nextProductId, sales, nextSaleId,
          loginLog, nextLogId, session, now, request, response, effects>>

userVars    == <<users, nextUserId>>
productVars == <<products, nextProductId>>
saleVars    == <<sales, nextSaleId>>
loginVars   == <<loginLog, nextLogId, session>>

----------------------------------------------------------------------------
(* Bounds of the model.                                                    *)

MaxUsers == 2
MaxProducts == 2
MaxSales == 2
MaxLogs == 2
MaxTime == 1

(* Program constants.                                                      *)

NameMaxLength == 255
MaxDigits == 10
DecimalPlaces == 2

HTTP_200_OK == 200
HTTP_201_CREATED == 201
HTTP_204_NO_CONTENT == 204
HTTP_400_BAD_REQUEST == 400
HTTP_404_NOT_FOUND == 404
HTTP_500_INTERNAL_SERVER_ERROR == 500

----------------------------------------------------------------------------
(* Values.                                                                 *)

\* A null foreign key / Python's None for a user; primary keys start at 1.
NoUser == 0

\* A request body (request.data) is a dict: a function from the keys that
\* were sent to their values.
EmptyData == [k \in {} |-> 0]

Field(k, v) == [x \in {k} |-> v]

\* Text is a sequence of characters.
Usernames == {"alice", "bob"}
RawPasswords == {"p", "q"}

\* Product names a client may send: one without and one with surrounding
\* whitespace, and one that is only whitespace.
Names == { <<"b">>, <<" ", "a", " ">>, <<" ">> }

\* A decimal literal d * 10^-s is the pair <<d, s>>:
\* "2.00" = <<200, 2>>, "1.5" = <<15, 1>>, "1.555" = <<1555, 3>>.
Prices == { <<200, 2>>, <<15, 1>>, <<1555, 3>> }

UserIds    == 1..MaxUsers
ProductIds == 1..MaxProducts
SaleIds    == 1..MaxSales
Times      == 0..MaxTime

----------------------------------------------------------------------------
(* django.contrib.auth as the handlers use it.                             *)

\* create_user stores make_password(raw): the encoded form, never the raw one.
make_password(raw) == <<"pbkdf2_sha256", raw>>

check_password(raw, encoded) == encoded = make_password(raw)

\* authenticate(request, username=, password=): the user whose username and
\* password match, None when there is none.
authenticate(username, password) ==
    LET hit == { id \in DOMAIN users :
                    /\ users[id].username = username
                    /\ check_password(password, users[id].password) }
    IN  IF hit = {} THEN NoUser ELSE CHOOSE id \in hit : TRUE

Truthy_KeyPresent(data, k) == k \in DOMAIN data

\* Python truthiness of request.data.get(k): a missing key gives None, and
\* None and the empty string are both false.
Truthy(data, k) == k \in DOMAIN data /\ data[k] # ""

----------------------------------------------------------------------------
(* Rows removed by ON DELETE CASCADE.                                      *)

Restrict(f, S) == [x \in S |-> f[x]]

\* The products that go with a set of users.
ProductsOfUsers(us) == { p \in DOMAIN products : products[p].user \in us }

SalesOf_UserOnly(us, ps) == { s \in DOMAIN sales : sales[s].user \in us }

\* The sales that go with a set of users and a set of products.
SalesOf(us, ps) ==
    { s \in DOMAIN sales : sales[s].user \in us \/ sales[s].product \in ps }

LogsOfUsers(us) == { l \in DOMAIN loginLog : loginLog[l].user \in us }

----------------------------------------------------------------------------
Init ==
    /\ users = EmptyData
    /\ nextUserId = 1
    /\ products = EmptyData
    /\ nextProductId = 1
    /\ sales = EmptyData
    /\ nextSaleId = 1
    /\ loginLog = EmptyData
    /\ nextLogId = 1
    /\ session = NoUser
    /\ now = 0
    /\ request = [op |-> "none", pk |-> 0, data |-> EmptyData]
    /\ response = [status |-> 0, body |-> "none"]
    /\ effects = <<>>

\* The clock advances between requests.
Tick ==
    /\ now < MaxTime
    /\ now' = now + 1
    /\ UNCHANGED <<userVars, productVars, saleVars, loginVars,
                   request, response, effects>>

Request(op, pk, data) == [op |-> op, pk |-> pk, data |-> data]
Response(status, body) == [status |-> status, body |-> body]

----------------------------------------------------------------------------
(* POST /api/users/create/ : UserCreateView with UserSerializer.           *)

UserBodies ==
    { u @@ p : u \in {EmptyData} \cup { Field("username", n) : n \in Usernames },
               p \in {EmptyData} \cup { Field("password", "p") } }

\* The fields UserSerializer rejects: both are required, and the username
\* must be unique (the model's unique constraint, as a validator).
UserErrors(data) ==
    { f \in {"username", "password"} : f \notin DOMAIN data }
    \cup { f \in {"username"} :
             /\ f \in DOMAIN data
             /\ \E id \in DOMAIN users : users[id].username = data[f] }

\* UserSerializer's output: the password is write-only.
UserView(us, id) == [id |-> id, username |-> us[id].username]

UserCreate(data) ==
    /\ request' = Request("user_create", 0, data)
    /\ IF UserErrors(data) # {}
       THEN /\ response' = Response(HTTP_400_BAD_REQUEST, UserErrors(data))
            /\ effects' = <<>>
            /\ UNCHANGED userVars
       ELSE /\ nextUserId <= MaxUsers
            /\ users' = (nextUserId :>
                            [username |-> data["username"],
                             password |-> make_password(data["password"])])
                        @@ users
            /\ nextUserId' = nextUserId + 1
            /\ response' = Response(HTTP_201_CREATED,
                                    UserView(users', nextUserId))
            /\ effects' = <<"User.create_user">>
    /\ UNCHANGED <<productVars, saleVars, loginVars, now>>

----------------------------------------------------------------------------
(* POST /api/users/login/ : UserLoginView.post.                            *)

LoginBodies ==
    { u @@ p : u \in {EmptyData}
                     \cup { Field("username", n) : n \in Usernames \cup {""} },
               p \in {EmptyData}
                     \cup { Field("password", w) : w \in RawPasswords \cup {""} } }

\* The row UserLoginLog.objects.create builds.  auto_now_add overwrites the
\* timestamp that is passed with the time of the insert.
LoginLogRow(user, username, success) ==
    [user |-> user, username |-> username, success |-> success,
     timestamp |-> now]

\* UserLoginLog.user is a ForeignKey without null=True: the column is NOT
\* NULL, and an insert without a user raises IntegrityError.
LoginLogInsertable(row) == row.user # NoUser

LoginSuccessEffects_LoginFirst ==
    <<"authenticate", "login", "UserLoginLog.create">>

\* The effects of the branch of post() taken after authenticate() has
\* returned a user, in program order.
LoginSuccessEffects == <<"authenticate", "UserLoginLog.create", "login">>

\* login(request, user): the session now carries the user.
SessionAfterLogin(user) == user

UserLogin(data) ==
    /\ request' = Request("user_login", 0, data)
    /\ IF ~Truthy(data, "username") \/ ~Truthy(data, "password")
       THEN /\ response' = Response(HTTP_400_BAD_REQUEST,
                                    "Username and password are required")
            /\ effects' = <<>>
            /\ UNCHANGED loginVars
       ELSE LET user == authenticate(data["username"], data["password"])
                row  == LoginLogRow(user, data["username"], user # NoUser)
            IN  IF ~LoginLogInsertable(row)
                THEN \* the failure branch: create() raises, the request
                     \* ends as an unhandled exception
                     /\ response' = Response(HTTP_500_INTERNAL_SERVER_ERROR,
                                             "IntegrityError")
                     /\ effects' = <<"authenticate">>
                     /\ UNCHANGED loginVars
                ELSE /\ nextLogId <= MaxLogs
                     /\ loginLog' = (nextLogId :> row) @@ loginLog
                     /\ nextLogId' = nextLogId + 1
                     /\ IF user = NoUser
                        THEN /\ response' = Response(HTTP_400_BAD_REQUEST,
                                                     "Invalid credentials")
                             /\ effects' = <<"authenticate",
                                             "UserLoginLog.create">>
                             /\ UNCHANGED session
                        ELSE /\ session' = SessionAfterLogin(user)
                             /\ response' = Response(HTTP_200_OK,
                                                     "Login successful")
                             /\ effects' = LoginSuccessEffects
    /\ UNCHANGED <<userVars, productVars, saleVars, now>>

----------------------------------------------------------------------------
(* /admin/ : deleting a User in the administrative console.  Every foreign *)
(* key to User is on_delete=CASCADE, and so is Sale.product.               *)

AdminDeleteUser(id) ==
    /\ id \in DOMAIN users
    /\ request' = Request("admin_user_delete", id, EmptyData)
    /\ effects' = <<"User.delete">>
    /\ LET ps == ProductsOfUsers({id})
           ss == SalesOf({id}, ps)
           ls == LogsOfUsers({id})
       IN  /\ response' = Response(HTTP_200_OK,
                                   [products |-> ps, sales |-> ss,
                                    loginLog |-> ls])
           /\ users' = Restrict(users, DOMAIN users \ {id})
           /\ products' = Restrict(products, DOMAIN products \ ps)
           /\ sales' = Restrict(sales, DOMAIN sales \ ss)
           /\ loginLog' = Restrict(loginLog, DOMAIN loginLog \ ls)
    /\ UNCHANGED <<nextUserId, nextProductId, nextSaleId, nextLogId,
                   session, now>>

----------------------------------------------------------------------------
(* ProductSerializer: a ModelSerializer over Product's name, price, user.  *)
(* 'id' is read-only.                                                      *)

ProductFields == {"name", "price", "user"}

RECURSIVE lstrip(_)
lstrip(s) ==
    IF s = <<>> THEN s
    ELSE IF Head(s) = " " THEN lstrip(Tail(s)) ELSE s

RECURSIVE rstrip(_)
rstrip(s) ==
    IF s = <<>> THEN s
    ELSE IF s[Len(s)] = " " THEN rstrip(SubSeq(s, 1, Len(s) - 1)) ELSE s

\* str.strip(): the serializer's CharField trims surrounding whitespace
\* (trim_whitespace is on unless the field turns it off).
strip(s) == rstrip(lstrip(s))

\* name = CharField(max_length=255), blank not allowed.
NameValid(v) == strip(v) # <<>> /\ Len(strip(v)) <= NameMaxLength

NameToInternal(v) == strip(v)

RECURSIVE Pow10(_)
Pow10(n) == IF n = 0 THEN 1 ELSE 10 * Pow10(n - 1)

RECURSIVE NumDigits(_)
NumDigits(d) == IF d < 10 THEN 1 ELSE 1 + NumDigits(d \div 10)

\* price = DecimalField(max_digits=10, decimal_places=2): the serializer
\* field's validate_precision on the literal <<d, s>> as it was sent.
PriceValid(v) ==
    LET d == v[1]
        s == v[2]
        total == IF s = 0 \/ NumDigits(d) > s THEN NumDigits(d) ELSE s
        whole == IF s = 0 THEN NumDigits(d)
                 ELSE IF NumDigits(d) > s THEN NumDigits(d) - s ELSE 0
    IN  /\ total <= MaxDigits
        /\ s <= DecimalPlaces
        /\ whole <= MaxDigits - DecimalPlaces

\* quantize: the value at exactly decimal_places fraction digits.
PriceToInternal(v) == <<v[1] * Pow10(DecimalPlaces - v[2]), DecimalPlaces>>

UserRefValid_Any(v) == TRUE

\* user = PrimaryKeyRelatedField(queryset=User.objects.all()).
UserRefValid(v) == v \in DOMAIN users

FieldValid(f, v) ==
    CASE f = "name"  -> NameValid(v)
      [] f = "price" -> PriceValid(v)
      [] f = "user"  -> UserRefValid(v)

FieldToInternal(f, v) ==
    CASE f = "name"  -> NameToInternal(v)
      [] f = "price" -> PriceToInternal(v)
      [] f = "user"  -> v

\* serializer.errors: the fields that fail; a field that was not sent is
\* required, unless the serializer is partial.
ProductErrors(data, partial) ==
    { f \in ProductFields :
        IF f \in DOMAIN data THEN ~FieldValid(f, data[f]) ELSE ~partial }

\* serializer.validated_data, when there are no errors.
ProductValidated(data) ==
    [f \in ProductFields \cap DOMAIN data |-> FieldToInternal(f, data[f])]

\* ModelSerializer.update: setattr for each validated field, then save().
ProductUpdated(row, validated) ==
    [f \in ProductFields |->
        IF f \in DOMAIN validated THEN validated[f] ELSE row[f]]

ProductView_WholePrice(prods, id) ==
    [id |-> id, name |-> prods[id]["name"],
     price |-> <<(prods[id]["price"][1] \div 100) * 100, 2>>,
     user |-> prods[id]["user"]]

\* serializer.data of a stored product.
ProductView(prods, id) ==
    [id |-> id, name |-> prods[id]["name"], price |-> prods[id]["price"],
     user |-> prods[id]["user"]]

ProductBodies ==
    { n @@ p @@ u :
        n \in {EmptyData} \cup { Field("name", v) : v \in Names },
        p \in {EmptyData} \cup { Field("price", v) : v \in Prices },
        u \in {EmptyData} \cup { Field("user", v) : v \in UserIds } }

----------------------------------------------------------------------------
(* GET, POST /api/products/ : ProductListView.                             *)

ProductList ==
    /\ request' = Request("product_list", 0, EmptyData)
    /\ response' = Response(HTTP_200_OK,
                            { ProductView(products, id) : id \in DOMAIN products })
    /\ effects' = <<>>
    /\ UNCHANGED <<userVars, productVars, saleVars, loginVars, now>>

ProductCreate(data) ==
    /\ request' = Request("product_create", 0, data)
    /\ IF ProductErrors(data, FALSE) # {}
       THEN /\ response' = Response(HTTP_400_BAD_REQUEST,
                                    ProductErrors(data, FALSE))
            /\ effects' = <<>>
            /\ UNCHANGED productVars
       ELSE /\ nextProductId <= MaxProducts
            /\ products' = (nextProductId :> ProductValidated(data))
                           @@ products
            /\ nextProductId' = nextProductId + 1
            /\ response' = Response(HTTP_201_CREATED,
                                    ProductView(products', nextProductId))
            /\ effects' = <<"Product.save">>
    /\ UNCHANGED <<userVars, saleVars, loginVars, now>>

----------------------------------------------------------------------------
(* GET, PUT, DELETE /api/products/<pk>/ : ProductDetailView.               *)

NotFound == Response(HTTP_404_NOT_FOUND, "Not found.")

PutPartial_False == FALSE

\* put() builds its serializer with partial=True.
PutPartial == TRUE

WithoutProduct_SoftDelete(pk) == products

\* product.delete(): the table without the row.
WithoutProduct(pk) == Restrict(products, DOMAIN products \ {pk})

ProductGet(pk) ==
    /\ request' = Request("product_get", pk, EmptyData)
    /\ response' = IF pk \in DOMAIN products
                   THEN Response(HTTP_200_OK, ProductView(products, pk))
                   ELSE NotFound
    /\ effects' = <<>>
    /\ UNCHANGED <<userVars, productVars, saleVars, loginVars, now>>

ProductPut(pk, data) ==
    /\ request' = Request("product_put", pk, data)
    /\ IF pk \notin DOMAIN products
       THEN /\ response' = NotFound
            /\ effects' = <<>>
            /\ UNCHANGED products
       ELSE IF ProductErrors(data, PutPartial) # {}
       THEN /\ response' = Response(HTTP_400_BAD_REQUEST,
                                    ProductErrors(data, PutPartial))
            /\ effects' = <<>>
            /\ UNCHANGED products
       ELSE /\ products' = [products EXCEPT ![pk] =
                               ProductUpdated(@, ProductValidated(data))]
            /\ response' = Response(HTTP_200_OK, ProductView(products', pk))
            /\ effects' = <<"Product.save">>
    /\ UNCHANGED <<userVars, nextProductId, saleVars, loginVars, now>>

ProductDelete(pk) ==
    /\ request' = Request("product_delete", pk, EmptyData)
    /\ IF pk \notin DOMAIN products
       THEN /\ response' = NotFound
            /\ effects' = <<>>
            /\ UNCHANGED <<products, sales>>
       ELSE /\ products' = WithoutProduct(pk)
            /\ sales' = Restrict(sales, DOMAIN sales \ SalesOf({}, {pk}))
            /\ response' = Response(HTTP_204_NO_CONTENT,
                                    "Product deleted successfully.")
            /\ effects' = <<"Product.delete">>
    /\ UNCHANGED <<userVars, nextProductId, nextSaleId, loginVars, now>>

----------------------------------------------------------------------------
(* POST /api/sales/ : SaleCreateView;  GET /api/sales/<pk>/ : SaleDetailView*)
(* SaleSerializer: product, user, and the read-only sale_date.             *)

SaleBodies ==
    { p @@ u @@ d :
        p \in {EmptyData} \cup { Field("product", v) : v \in ProductIds },
        u \in {EmptyData} \cup { Field("user", v) : v \in UserIds },
        d \in {EmptyData} \cup { Field("sale_date", v) : v \in Times } }

SaleErrors(data) ==
    { f \in {"product"} : f \notin DOMAIN data \/ data[f] \notin DOMAIN products }
    \cup
    { f \in {"user"} : f \notin DOMAIN data \/ data[f] \notin DOMAIN users }

SaleRow_ClientDate(data) ==
    [product |-> data["product"], user |-> data["user"],
     sale_date |-> IF "sale_date" \in DOMAIN data THEN data["sale_date"]
                   ELSE now]

\* The row of a new sale: read-only fields of the body are dropped, and
\* auto_now_add sets sale_date to the time of the insert.
SaleRow(data) ==
    [product |-> data["product"], user |-> data["user"], sale_date |-> now]

SaleView(sls, id) ==
    [id |-> id, product |-> sls[id].product, user |-> sls[id].user,
     sale_date |-> sls[id].sale_date]

SaleCreate(data) ==
    /\ request' = Request("sale_create", 0, data)
    /\ IF SaleErrors(data) # {}
       THEN /\ response' = Response(HTTP_400_BAD_REQUEST, SaleErrors(data))
            /\ effects' = <<>>
            /\ UNCHANGED saleVars
       ELSE /\ nextSaleId <= MaxSales
            /\ sales' = (nextSaleId :> SaleRow(data)) @@ sales
            /\ nextSaleId' = nextSaleId + 1
            /\ response' = Response(HTTP_201_CREATED,
                                    SaleView(sales', nextSaleId))
            /\ effects' = <<"Sale.save">>
    /\ UNCHANGED <<userVars, productVars, loginVars, now>>

SaleGet(pk) ==
    /\ request' = Request("sale_get", pk, EmptyData)
    /\ response' = IF pk \in DOMAIN sales
                   THEN Response(HTTP_200_OK, SaleView(sales, pk))
                   ELSE NotFound
    /\ effects' = <<>>
    /\ UNCHANGED <<userVars, productVars, saleVars, loginVars, now>>

----------------------------------------------------------------------------
(* The whole routing table.                                                *)

Next ==
    \/ \E data \in UserBodies : UserCreate(data)
    \/ \E data \in LoginBodies : UserLogin(data)
    \/ \E id \in UserIds : AdminDeleteUser(id)
    \/ ProductList
    \/ \E data \in ProductBodies : ProductCreate(data)
    \/ \E pk \in ProductIds : ProductGet(pk)
    \/ \E pk \in ProductIds, data \in ProductBodies : ProductPut(pk, data)
    \/ \E pk \in ProductIds : ProductDelete(pk)
    \/ \E data \in SaleBodies : SaleCreate(data)
    \/ \E pk \in SaleIds : SaleGet(pk)
    \/ Tick

Spec == Init /\ [][Next]_vars

----------------------------------------------------------------------------
(* The product part: registration, user deletion and the product handlers. *)

NextProduct ==
    \/ \E data \in UserBodies : UserCreate(data)
    \/ \E id \in UserIds : AdminDeleteUser(id)
    \/ ProductList
    \/ \E data \in ProductBodies : ProductCreate(data)
    \/ \E pk \in ProductIds : ProductGet(pk)
    \/ \E pk \in ProductIds, data \in ProductBodies : ProductPut(pk, data)
    \/ \E pk \in ProductIds : ProductDelete(pk)

SpecProduct == Init /\ [][NextProduct]_vars

----------------------------------------------------------------------------
(* The sale part: registration, user deletion, the sale handlers, and the  *)
(* product handlers that create, re-own and delete the products sold, with *)
(* one name and one price.                                                 *)

PlainProductBodies ==
    { d \in ProductBodies :
        /\ "name" \in DOMAIN d => d["name"] = <<"b">>
        /\ "price" \in DOMAIN d => d["price"] = <<200, 2>>
        /\ ("name" \in DOMAIN d) = ("price" \in DOMAIN d) }

NextSale ==
    \/ \E data \in UserBodies : UserCreate(data)
    \/ \E id \in UserIds : AdminDeleteUser(id)
    \/ \E data \in PlainProductBodies : ProductCreate(data)
    \/ \E pk \in ProductIds, data \in PlainProductBodies : ProductPut(pk, data)
    \/ \E pk \in ProductIds : ProductDelete(pk)
    \/ \E data \in SaleBodies : SaleCreate(data)
    \/ \E pk \in SaleIds : SaleGet(pk)
    \/ Tick

SpecSale == Init /\ [][NextSale]_vars

----------------------------------------------------------------------------
(* The login part of the program: registration, login, user deletion.     *)

NextLogin ==
    \/ \E data \in UserBodies : UserCreate(data)
    \/ \E data \in LoginBodies : UserLogin(data)
    \/ \E id \in UserIds : AdminDeleteUser(id)
    \/ Tick

SpecLogin == Init /\ [][NextLogin]_vars

----------------------------------------------------------------------------
(* Vocabulary of the properties.                                           *)

\* The step is the handling of a request `op` (every handler records its
\* request; the clock's step leaves the last request in place).
Handles(op) == request'.op = op /\ now' = now

\* A key of a login body that is missing or empty.
MissingOrEmpty(data, k) == k \notin DOMAIN data \/ data[k] = ""

\* The registered user with this username and this password, if any.
Matching(username, password) ==
    { id \in DOMAIN users :
        /\ users[id].username = username
        /\ users[id].password = <<"pbkdf2_sha256", password>> }

\* `tbl2` is `tbl` with exactly one row added, and the row is `row`.
AppendsOne(tbl, tbl2, row) ==
    \E id \in DOMAIN tbl2 \ DOMAIN tbl :
        /\ DOMAIN tbl2 = DOMAIN tbl \cup {id}
        /\ \A old \in DOMAIN tbl : tbl2[old] = tbl[old]
        /\ tbl2[id] = row

\* In `seq`, `a` and `b` each occur once, `a` before `b`.
OnceBefore(seq, a, b) ==
    /\ Cardinality({ i \in DOMAIN seq : seq[i] = a }) = 1
    /\ Cardinality({ i \in DOMAIN seq : seq[i] = b }) = 1
    /\ \E i, j \in DOMAIN seq : i < j /\ seq[i] = a /\ seq[j] = b

----------------------------------------------------------------------------
(* Login.                                                                  *)

\* C1: a login that supplies a username and a credential which match no
\* user appends exactly one LoginLog row with success = false, the
\* attempted username and no user reference, and is answered with 400.
C1_FailedLoginIsLogged ==
    [][ ( /\ Handles("user_login")
          /\ ~MissingOrEmpty(request'.data, "username")
          /\ ~MissingOrEmpty(request'.data, "password")
          /\ Matching(request'.data["username"],
                      request'.data["password"]) = {} )
        => /\ AppendsOne(loginLog, loginLog',
                         [user |-> NoUser,
                          username |-> request'.data["username"],
                          success |-> FALSE, timestamp |-> now])
           /\ response'.status = 400 ]_vars

\* C2: a login with the username and credential of an existing user
\* appends exactly one LoginLog row with success = true and that user,
\* puts that user in the session, is answered with 200 and the success
\* message, and writes the row before it establishes the session.
C2_SuccessfulLogin ==
    [][ ( /\ Handles("user_login")
          /\ ~MissingOrEmpty(request'.data, "username")
          /\ ~MissingOrEmpty(request'.data, "password") )
        => \A u \in Matching(request'.data["username"],
                             request'.data["password"]) :
              /\ AppendsOne(loginLog, loginLog',
                            [user |-> u,
                             username |-> request'.data["username"],
                             success |-> TRUE, timestamp |-> now])
              /\ session' = u
              /\ response' = [status |-> 200, body |-> "Login successful"]
              /\ OnceBefore(effects', "UserLoginLog.create", "login") ]_vars

\* A user has logged in: the row is there, the session carries the user.
C2_Witness ==
    /\ request.op = "user_login"
    /\ response.status = 200
    /\ session \in DOMAIN users
    /\ \E l \in DOMAIN loginLog :
          loginLog[l].user = session /\ loginLog[l].success

\* C3: a login whose username or credential is missing or empty is
\* answered with 400 and changes nothing: no LoginLog row, no session, no
\* credential check.
C3_MissingFieldsLeaveNoTrace ==
    [][ ( /\ Handles("user_login")
          /\ \/ MissingOrEmpty(request'.data, "username")
             \/ MissingOrEmpty(request'.data, "password") )
        => /\ response'.status = 400
           /\ UNCHANGED <<userVars, productVars, saleVars, loginVars>>
           /\ \A i \in DOMAIN effects' : effects'[i] # "authenticate" ]_vars

\* An empty credential was refused while a user with that name exists and
\* another user is logged in.
C3_Witness ==
    /\ request.op = "user_login"
    /\ response.status = 400
    /\ "password" \in DOMAIN request.data
    /\ request.data["password"] = ""
    /\ "username" \in DOMAIN request.data
    /\ \E id \in DOMAIN users : users[id].username = request.data["username"]
    /\ session # NoUser
    /\ loginLog # EmptyData

\* C4: LoginLog is append-only: no step removes or changes a row.
C4_LoginLogAppendOnly ==
    [][ \A l \in DOMAIN loginLog :
           l \in DOMAIN loginLog' /\ loginLog'[l] = loginLog[l] ]_vars

----------------------------------------------------------------------------
(* Products.                                                               *)

\* `t` is `s` without its leading and trailing spaces.
StrippedOf(t, s) ==
    /\ t # <<>>
    /\ t[1] # " "
    /\ t[Len(t)] # " "
    /\ \E i \in 0..Len(s) :
          /\ i + Len(t) <= Len(s)
          /\ SubSeq(s, i + 1, i + Len(t)) = t
          /\ \A k \in 1..Len(s) : (k <= i \/ k > i + Len(t)) => s[k] = " "

\* Two decimal literals denote the same number.
SameNumber(a, b) == a[1] * Pow10(b[2]) = b[1] * Pow10(a[2])

\* A body the Product shape accepts, field by field: a name with a
\* character that is not a space, a price of at most two fraction digits
\* and eight whole digits, a user that exists.
AcceptableFields(data) ==
    /\ "name" \in DOMAIN data =>
          \E k \in DOMAIN data["name"] : data["name"][k] # " "
    /\ "price" \in DOMAIN data =>
          /\ data["price"][2] <= 2
          /\ data["price"][1] \div Pow10(data["price"][2]) < Pow10(8)
    /\ "user" \in DOMAIN data => data["user"] \in DOMAIN users

\* The row `row` holds the fields of `data` that were sent, as stored: the
\* name stripped, the price as the same number with two fraction digits,
\* the user as it is.
HoldsAsStored(row, data) ==
    /\ "name" \in DOMAIN data => StrippedOf(row["name"], data["name"])
    /\ "price" \in DOMAIN data =>
          SameNumber(row["price"], data["price"]) /\ row["price"][2] = 2
    /\ "user" \in DOMAIN data => row["user"] = data["user"]

\* The row `row` holds the fields of `data` that were sent, as they were
\* sent.
HoldsAsSent(row, data) ==
    /\ "name" \in DOMAIN data => row["name"] = data["name"]
    /\ "price" \in DOMAIN data => SameNumber(row["price"], data["price"])
    /\ "user" \in DOMAIN data => row["user"] = data["user"]

\* The step changes no product but `pk`.
OtherProductsKept(pk) ==
    /\ DOMAIN products' \ {pk} = DOMAIN products \ {pk}
    /\ \A o \in DOMAIN products \ {pk} : products'[o] = products[o]

ViewOf(row, id) ==
    [id |-> id, name |-> row["name"], price |-> row["price"],
     user |-> row["user"]]

\* What a PUT of acceptable fields on the existing product `pk` does, given
\* how a row holds what was sent.
PutUpdates(Holds(_, _)) ==
    ( /\ Handles("product_put")
      /\ request'.pk \in DOMAIN products
      /\ AcceptableFields(request'.data) )
    => LET pk == request'.pk
           data == request'.data
       IN  /\ pk \in DOMAIN products'
           /\ Holds(products'[pk], data)
           /\ \A f \in ProductFields \ DOMAIN data :
                 products'[pk][f] = products[pk][f]
           /\ OtherProductsKept(pk)
           /\ response' = [status |-> 200, body |-> ViewOf(products'[pk], pk)]

\* C5 as claimed: a PUT on an existing product gives exactly the supplied
\* fields the supplied values, keeps every other field and every other
\* product, and is answered with 200 and the updated product.
C5_PutTakesSuppliedValues == [][PutUpdates(HoldsAsSent)]_vars

\* C5, amended: the supplied fields take the supplied values as the
\* serializer stores them (the name stripped of surrounding whitespace, the
\* price as the same number with two fraction digits).
C5_PutIsPartialUpdate == [][PutUpdates(HoldsAsStored)]_vars

\* A PUT of the price alone has changed the price, by the side of another
\* product.
C5_Witness ==
    /\ request.op = "product_put"
    /\ response.status = 200
    /\ DOMAIN request.data = {"price"}
    /\ Cardinality(DOMAIN products) = 2
    /\ \E o \in DOMAIN products :
          products[o]["price"] # products[request.pk]["price"]

\* C6: DELETE of an id that does not exist is a 404 and changes nothing;
\* DELETE of an existing id removes the row and is a 204; an id that has
\* been deleted never comes back, and GET, PUT and DELETE on it are 404s.
C6_DeleteThenNotFound ==
    [][ /\ ( Handles("product_delete") /\ request'.pk \notin DOMAIN products )
           => /\ response'.status = 404
              /\ UNCHANGED <<userVars, productVars, saleVars, loginVars>>
        /\ ( Handles("product_delete") /\ request'.pk \in DOMAIN products )
           => /\ response'.status = 204
              /\ request'.pk \notin DOMAIN products'
              /\ OtherProductsKept(request'.pk)
        /\ \A id \in 1..(nextProductId - 1) :
              id \notin DOMAIN products => id \notin DOMAIN products'
        /\ ( /\ request'.op \in {"product_get", "product_put", "product_delete"}
             /\ now' = now
             /\ request'.pk \notin DOMAIN products )
           => response'.status = 404 ]_vars

\* A second DELETE of a product that was deleted (no user was ever deleted,
\* so the product did not go with its owner).
C6_Witness ==
    /\ request.op = "product_delete"
    /\ response.status = 404
    /\ request.pk < nextProductId
    /\ Cardinality(DOMAIN users) = nextUserId - 1

\* What creating a product and reading it back does, given how a row holds
\* what was sent and which steps may change a product.
CreateThenGet(Holds(_, _), MayChange(_)) ==
    /\ ( /\ Handles("product_create")
         /\ DOMAIN request'.data = ProductFields
         /\ AcceptableFields(request'.data) )
       => /\ response'.status = 201
          /\ LET id == response'.body.id
             IN  /\ id \notin DOMAIN products
                 /\ id \in DOMAIN products'
                 /\ Holds(products'[id], request'.data)
                 /\ OtherProductsKept(id)
    /\ ( Handles("product_get") /\ request'.pk \in DOMAIN products )
       => /\ response' = [status |-> 200,
                          body |-> ViewOf(products[request'.pk], request'.pk)]
          /\ UNCHANGED products
    /\ Handles("product_list")
       => /\ response' = [status |-> 200,
                          body |-> { ViewOf(products[id], id) :
                                        id \in DOMAIN products }]
          /\ UNCHANGED products
    /\ \A id \in DOMAIN products :
          MayChange(id) \/ (id \in DOMAIN products' /\ products'[id] = products[id])

PutOrDeleteOf(id) ==
    request'.op \in {"product_put", "product_delete"} /\ request'.pk = id

OwnerDeleted(id) ==
    request'.op = "admin_user_delete" /\ request'.pk = products[id]["user"]

PutOrDeleteOrOwnerDeleted(id) == PutOrDeleteOf(id) \/ OwnerDeleted(id)

\* C7 as claimed: a product created from (name, price, user) is read back
\* by its id with exactly that name, price and user, as long as no PUT or
\* DELETE on the id came between, and it is in the list.
C7_CreateThenGetExact == [][CreateThenGet(HoldsAsSent, PutOrDeleteOf)]_vars

\* C7, amended: it is read back with the name stripped of surrounding
\* whitespace, the price as the same number with two fraction digits and
\* the user, as long as no PUT or DELETE on the id and no deletion of its
\* owner came between.
C7_CreateThenGet ==
    [][CreateThenGet(HoldsAsStored, PutOrDeleteOrOwnerDeleted)]_vars

\* A product created earlier has been read back while a newer one exists.
C7_Witness ==
    /\ request.op = "product_get"
    /\ response.status = 200
    /\ response.body.name = <<"a">>
    /\ response.body.price = <<150, 2>>
    /\ request.pk + 1 \in DOMAIN products

----------------------------------------------------------------------------
(* Sales and foreign keys.                                                 *)

C9_UserDeleteCascades ==
    [][ Handles("admin_user_delete")
        => LET id == request'.pk
               gone(p) == p \in DOMAIN products /\ products[p].user = id
           IN  /\ id \in DOMAIN users
               /\ DOMAIN users' = DOMAIN users \ {id}
               /\ DOMAIN products' = { p \in DOMAIN products : ~gone(p) }
               /\ \A p \in DOMAIN products' : products'[p] = products[p]
               /\ DOMAIN sales' =
                     { x \in DOMAIN sales :
                          sales[x].user # id /\ ~gone(sales[x].product) }
               /\ \A x \in DOMAIN sales' : sales'[x] = sales[x] ]_vars

\* A user was deleted together with a product and a sale, and a product and
\* a sale of another user are still there.
C9_Witness ==
    /\ request.op = "admin_user_delete"
    /\ response.body.products # {}
    /\ response.body.sales # {}
    /\ products # EmptyData
    /\ sales # EmptyData

\* Every foreign key points to a row that exists.
ReferencesExist(us, ps, ss) ==
    /\ \A p \in DOMAIN ps : ps[p].user \in DOMAIN us
    /\ \A x \in DOMAIN ss :
          ss[x].product \in DOMAIN ps /\ ss[x].user \in DOMAIN us

\* C10: after every step every sale references a product and a user that
\* exist and every product a user that exists; a product or a sale whose
\* body references an id that does not exist is refused with 400 and no
\* row is created; DELETE of a product removes the sales that reference it,
\* and GET of a sale that is gone is a 404.
C10_ReferentialIntegrity ==
    [][ /\ ReferencesExist(users', products', sales')
        /\ ( /\ Handles("product_create")
             /\ "user" \in DOMAIN request'.data
             /\ request'.data["user"] \notin DOMAIN users )
           => response'.status = 400 /\ UNCHANGED <<products, sales>>
        /\ ( /\ Handles("sale_create")
             /\ \/ /\ "user" \in DOMAIN request'.data
                   /\ request'.data["user"] \notin DOMAIN users
                \/ /\ "product" \in DOMAIN request'.data
                   /\ request'.data["product"] \notin DOMAIN products )
           => response'.status = 400 /\ UNCHANGED <<products, sales>>
        /\ ( Handles("product_delete") /\ request'.pk \in DOMAIN products )
           => DOMAIN sales' =
                 { x \in DOMAIN sales : sales[x].product # request'.pk }
        /\ ( Handles("sale_get") /\ request'.pk \notin DOMAIN sales )
           => response'.status = 404 ]_vars

\* A product was deleted and a sale went with it (no user was ever deleted).
C10_Witness ==
    /\ request.op = "product_delete"
    /\ response.status = 204
    /\ Cardinality(DOMAIN users) = nextUserId - 1
    /\ \E x \in 1..(nextSaleId - 1) : x \notin DOMAIN sales
    /\ sales # EmptyData

====
